---- MODULE Spec2Model ----
(***************************************************************************)
(* Model of safe/gis/raster/contour.py: tile_and_reflect and convolve.     *)
(*                                                                         *)
(* Arrays are functions over 0-based index ranges, as in numpy:            *)
(*   A[r][c] with r \in 0..rows-1, c \in 0..cols-1.                        *)
(* Numbers are exact rationals.  A grid cell is a pair <<n, d>> in lowest  *)
(* terms (d > 0).  A kernel weight is an integer count of 1/WeightUnit, so *)
(* a kernel "sums to 1" when its weights add up to WeightUnit.  Floating   *)
(* point rounding is not modelled: the 1e-15 test of the kernel sum is the *)
(* exact test "sum = 1", every smaller deviation being rounding only.      *)
(* Integer division is Python 2's (hw_row = weights.shape[0] / 2).         *)
(***************************************************************************)
EXTENDS Integers, Sequences, FiniteSets, TLC

\* ---------------------------------------------------------------- bounds
MaxRows == 3
MaxCols == 3
MaxVal == 2
MaxParCells == 9

\* The value 1.0 of a kernel total, counted in weight units (hundredths).
WeightUnit == 100

\* ------------------------------------------------------------ arithmetic
Abs(x) == IF x < 0 THEN -x ELSE x

RECURSIVE GCD(_, _)
GCD(a, b) == IF b = 0 THEN a ELSE GCD(b, a % b)

\* The rational n/d (d > 0) in lowest terms.
Rat(n, d) ==
    LET g == GCD(Abs(n), d)
    IN  IF n = 0 THEN <<0, 1>> ELSE <<n \div g, d \div g>>

RatGT(x, y) == x[1] * y[2] > y[1] * x[2]

\* ---------------------------------------------------------------- arrays
\* ndarray.shape of a 2-D array with at least one row.
Shape(A) == <<Cardinality(DOMAIN A), Cardinality(DOMAIN A[0])>>

Matrix(rows, cols, f(_, _)) ==
    [r \in 0..(rows - 1) |-> [c \in 0..(cols - 1) |-> f(r, c)]]

Cells(rows, cols) == (0..(rows - 1)) \X (0..(cols - 1))

\* Sum of f over the cells of a rows x cols array.
RECURSIVE SumTo(_, _, _)
SumTo(f, cols, n) ==
    IF n = 0 THEN 0
    ELSE f[(n - 1) \div cols][(n - 1) % cols] + SumTo(f, cols, n - 1)

NpSum(A, rows, cols) == IF rows = 0 \/ cols = 0 THEN 0 ELSE SumTo(A, cols, rows * cols)

\* Python's slice [start:stop] of an axis of length n: the first index read
\* and the number of indices (negative bounds count from the end, bounds
\* past the end are clipped).
PyBound(n, b) ==
    IF b < 0 THEN (IF b + n < 0 THEN 0 ELSE b + n)
    ELSE (IF b > n THEN n ELSE b)

SliceStart(n, start, stop) == PyBound(n, start)

SliceLen(n, start, stop) ==
    LET a == PyBound(n, start)
        b == PyBound(n, stop)
    IN  IF b > a THEN b - a ELSE 0

\* Python's index of an axis of length n (negative indices wrap once).
PyIndex(n, m) == IF m < 0 THEN m + n ELSE m

\* ------------------------------------------------------ tile_and_reflect
\* np.tile(input, (3, 3))
NpTile(A) ==
    LET rows == Shape(A)[1]
        cols == Shape(A)[2]
    IN  Matrix(3 * rows, 3 * cols, LAMBDA i, j : A[i % rows][j % cols])

\* T[r0:r0+rows, c0:c0+cols] = np.fliplr(T[r0:r0+rows, c0:c0+cols])
FlipLR(T, r0, c0, rows, cols) ==
    [r \in DOMAIN T |-> [c \in DOMAIN T[r] |->
        IF r >= r0 /\ r < r0 + rows /\ c >= c0 /\ c < c0 + cols
        THEN T[r][c0 + (cols - 1) - (c - c0)]
        ELSE T[r][c]]]

\* Mutation of FlipUD: the block is copied without being flipped.
FlipUDNoFlip(T, r0, c0, rows, cols) == T

\* T[r0:r0+rows, c0:c0+cols] = np.flipud(T[r0:r0+rows, c0:c0+cols])
FlipUD(T, r0, c0, rows, cols) ==
    [r \in DOMAIN T |-> [c \in DOMAIN T[r] |->
        IF r >= r0 /\ r < r0 + rows /\ c >= c0 /\ c < c0 + cols
        THEN T[r0 + (rows - 1) - (r - r0)][c]
        ELSE T[r][c]]]

\* for i in range(3): flip the left hand tile, then the right hand tile.
RECURSIVE ReflectSides(_, _, _, _)
ReflectSides(T, i, rows, cols) ==
    IF i = 3 THEN T
    ELSE LET left  == FlipLR(T, i * rows, 0, rows, cols)
             right == FlipLR(left, i * rows, PyBound(3 * cols, -cols), rows, cols)
         IN  ReflectSides(right, i + 1, rows, cols)

\* for i in range(3): flip the top tile, then the bottom tile.
RECURSIVE ReflectTopBottom(_, _, _, _)
ReflectTopBottom(T, i, rows, cols) ==
    IF i = 3 THEN T
    ELSE LET top    == FlipUD(T, 0, i * cols, rows, cols)
             bottom == FlipUD(top, PyBound(3 * rows, -rows), i * cols, rows, cols)
         IN  ReflectTopBottom(bottom, i + 1, rows, cols)

\* The array tile_and_reflect builds, before its assertions.
tile_and_reflect(A) ==
    LET rows == Shape(A)[1]
        cols == Shape(A)[2]
    IN  ReflectTopBottom(ReflectSides(NpTile(A), 0, rows, cols), 0, rows, cols)

\* The five assertions of tile_and_reflect on input A and tiled array T.
TileAsserts(A, T) ==
    LET rows == Shape(A)[1]
        cols == Shape(A)[2]
    IN  /\ \A r \in 0..(rows - 1), c \in 0..(cols - 1) : A[r][c] = T[rows + r][cols + c]
        /\ \A c \in 0..(cols - 1) : A[0][c] = T[rows - 1][cols + c]
        /\ \A r \in 0..(rows - 1) : A[r][cols - 1] = T[rows + r][2 * cols]
        /\ \A c \in 0..(cols - 1) : A[rows - 1][c] = T[2 * rows][cols + c]
        /\ \A r \in 0..(rows - 1) : A[r][0] = T[rows + r][cols - 1]

\* -------------------------------------------------- rationals, continued
RatAdd(x, y) ==
    LET g == GCD(x[2], y[2])
        l == (x[2] \div g) * y[2]
    IN  Rat(x[1] * (l \div x[2]) + y[1] * (l \div y[2]), l)

RatMul(x, y) == Rat(x[1] * y[1], x[2] * y[2])

\* Sum of the rational cells of a rows x cols array, in row-major order.
RECURSIVE RatSumTo(_, _, _)
RatSumTo(f, cols, n) ==
    IF n = 0 THEN <<0, 1>>
    ELSE RatAdd(RatSumTo(f, cols, n - 1), f[(n - 1) \div cols][(n - 1) % cols])

RatNpSum(A, rows, cols) ==
    IF rows = 0 \/ cols = 0 THEN <<0, 1>> ELSE RatSumTo(A, cols, rows * cols)

\* A value counted in weight units, as a plain number.
FromUnits(x) == Rat(x[1], x[2] * WeightUnit)

\* --------------------------------------------------------------- convolve
\* Mutation of SizePrecondition: the kernel size is not checked.
SizePreconditionNone(inp, w) == TRUE

\* assert weights.shape[0] < input.shape[0] + 1, and the same for axis 1
SizePrecondition(inp, w) ==
    /\ Shape(w)[1] < Shape(inp)[1] + 1
    /\ Shape(w)[2] < Shape(inp)[2] + 1

\* hw_row = weights.shape[0] / 2; hw_col = weights.shape[1] / 2
hw_row(w) == Shape(w)[1] \div 2
hw_col(w) == Shape(w)[2] \div 2

\* Mutation of TiledIndex: the offset of the central tile is forgotten.
TiledIndexNoOffset(n, o) == o

\* zip(range(rows, rows * 2), range(rows)): output index o of an axis of
\* length n is index n + o of the tiled array.
TiledIndex(n, o) == n + o

\* Mutation of Source: the neighbourhood is read from the output array
\* being written (smoothing in place).
SourceInPlace(tiled_in, out) == tile_and_reflect(out)

\* The array the loop body reads neighbour values from: tiled_input.
Source(tiled_in, out) == tiled_in

\* Mutation of SlowAverage: the kernel is not centred on (i, j).
SlowAverageOffCentre(T, w, i, j) ==
    LET kr == Shape(w)[1]
        kc == Shape(w)[2]
        m(k) == PyIndex(Shape(T)[1], i + k)
        n(l) == PyIndex(Shape(T)[2], j + l)
        term(k, l) == RatMul(T[m(k)][n(l)], <<w[k][l], 1>>)
    IN  FromUnits(RatNpSum(Matrix(kr, kc, term), kr, kc))

\* slow mode: for k, for l: average += tiled_input[m, n] * weights[k, l]
\* with m = i + k - hw_row, n = j + l - hw_col.
SlowAverage(T, w, i, j) ==
    LET kr == Shape(w)[1]
        kc == Shape(w)[2]
        m(k) == PyIndex(Shape(T)[1], i + k - hw_row(w))
        n(l) == PyIndex(Shape(T)[2], j + l - hw_col(w))
        term(k, l) == RatMul(T[m(k)][n(l)], <<w[k][l], 1>>)
    IN  FromUnits(RatNpSum(Matrix(kr, kc, term), kr, kc))

\* Shape of T[i - hw_row:i + hw_row + 1, j - hw_col:j + hw_col + 1]
WindowShape(T, w, i, j) ==
    <<SliceLen(Shape(T)[1], i - hw_row(w), i + hw_row(w) + 1),
      SliceLen(Shape(T)[2], j - hw_col(w), j + hw_col(w) + 1)>>

\* T[i - hw_row:i + hw_row + 1, j - hw_col:j + hw_col + 1]
Window(T, w, i, j) ==
    LET rs == SliceStart(Shape(T)[1], i - hw_row(w), i + hw_row(w) + 1)
        cs == SliceStart(Shape(T)[2], j - hw_col(w), j + hw_col(w) + 1)
        sh == WindowShape(T, w, i, j)
    IN  Matrix(sh[1], sh[2], LAMBDA k, l : T[rs + k][cs + l])

\* clobber_total = np.sum(weights[overlapping_mask])
clobber_total(w, om) ==
    LET kr == Shape(w)[1]
        kc == Shape(w)[2]
    IN  NpSum(Matrix(kr, kc, LAMBDA k, l : IF om[k][l] THEN w[k][l] ELSE 0), kr, kc)

\* remaining_num = np.sum(np.logical_not(overlapping_mask))
remaining_num(w, om) ==
    Cardinality({c \in Cells(Shape(w)[1], Shape(w)[2]) : ~om[c[1]][c[2]]})

\* Mutation of MaskedWeights: the clobbered weight is dropped, not
\* redistributed.
MaskedWeightsNoCorrection(w, om) ==
    Matrix(Shape(w)[1], Shape(w)[2],
           LAMBDA k, l : IF om[k][l] THEN <<0, 1>> ELSE <<w[k][l], 1>>)

\* tmp_weights = np.copy(weights); tmp_weights[overlapping_mask] = 0.0;
\* tmp_weights[np.where(tmp_weights != 0)] += correction
\* with correction = clobber_total / remaining_num (in weight units).
MaskedWeights(w, om) ==
    LET correction == Rat(clobber_total(w, om), remaining_num(w, om))
        zeroed(k, l) == IF om[k][l] THEN 0 ELSE w[k][l]
    IN  Matrix(Shape(w)[1], Shape(w)[2],
               LAMBDA k, l : IF zeroed(k, l) # 0
                             THEN RatAdd(<<zeroed(k, l), 1>>, correction)
                             ELSE <<0, 1>>)

\* tmp_weights = weights (no mask)
PlainWeights(w) == Matrix(Shape(w)[1], Shape(w)[2], LAMBDA k, l : <<w[k][l], 1>>)

\* np.sum(tmp_weights), in weight units
WeightsSum(tw) == RatNpSum(tw, Shape(tw)[1], Shape(tw)[2])

\* Mutation of WindowedAverage: the kernel rows are misaligned with the
\* window rows by one.
WindowedAverageShifted(tw, ov) ==
    LET kr == Shape(tw)[1]
        kc == Shape(tw)[2]
    IN  FromUnits(RatNpSum(
            Matrix(kr, kc, LAMBDA k, l : RatMul(tw[(k + 1) % kr][l], ov[k][l])), kr, kc))

\* merged = tmp_weights[:] * overlapping; average = np.sum(merged)
WindowedAverage(tw, ov) ==
    LET kr == Shape(tw)[1]
        kc == Shape(tw)[2]
    IN  FromUnits(RatNpSum(
            Matrix(kr, kc, LAMBDA k, l : RatMul(tw[k][l], ov[k][l])), kr, kc))

\* Mutation of Skipped: masked points are smoothed like any other.
SkippedNever(msk, tiled_msk, i, j) == FALSE

\* if mask is not None and tiled_mask[i, j]: continue
Skipped(msk, tiled_msk, i, j) == msk # <<>> /\ tiled_msk[1][i][j]

\* One pass of the loop body for output cell (io, jo): what it does
\* ("continue", "write" or "raise"), the failed assertion, the average
\* written and the working kernel built.
LoopBody(inp, w, msk, slw, tiled_in, tiled_msk, out, io, jo) ==
    LET i  == TiledIndex(Shape(inp)[1], io)
        j  == TiledIndex(Shape(inp)[2], jo)
        T  == Source(tiled_in, out)
        ov == Window(T, w, i, j)
        om == Window(tiled_msk[1], w, i, j)
        tw == MaskedWeights(w, om)
    IN  IF Skipped(msk, tiled_msk, i, j)
        THEN [kind |-> "continue", err |-> "", average |-> <<0, 1>>, tmp |-> <<>>]
        ELSE IF slw
        THEN [kind |-> "write", err |-> "", average |-> SlowAverage(T, w, i, j), tmp |-> <<>>]
        ELSE IF WindowShape(T, w, i, j) # Shape(w)
        THEN [kind |-> "raise", err |-> "overlapping.shape", average |-> <<0, 1>>, tmp |-> <<>>]
        ELSE IF msk = <<>>
        THEN [kind |-> "write", err |-> "",
              average |-> WindowedAverage(PlainWeights(w), ov), tmp |-> <<PlainWeights(w)>>]
        ELSE IF WindowShape(tiled_msk[1], w, i, j) # Shape(w)
        THEN [kind |-> "raise", err |-> "overlapping_mask.shape", average |-> <<0, 1>>, tmp |-> <<>>]
        ELSE IF ~(remaining_num(w, om) > 0)
        THEN [kind |-> "raise", err |-> "remaining_num", average |-> <<0, 1>>, tmp |-> <<>>]
        ELSE IF clobber_total(w, om) = 0
                /\ \E c \in Cells(Shape(w)[1], Shape(w)[2]) : om[c[1]][c[2]]
        THEN [kind |-> "raise", err |-> "correction", average |-> <<0, 1>>, tmp |-> <<>>]
        ELSE IF WeightsSum(tw) # <<WeightUnit, 1>>
        THEN [kind |-> "raise", err |-> "kernel_sum", average |-> <<0, 1>>, tmp |-> <<tw>>]
        ELSE [kind |-> "write", err |-> "", average |-> WindowedAverage(tw, ov), tmp |-> <<tw>>]

\* ----------------------------------------------------------------- inputs
\* A 0-based array from a tuple of row tuples.
Array(rowsq) ==
    Matrix(Len(rowsq), Len(rowsq[1]), LAMBDA r, c : rowsq[r + 1][c + 1])

ConstGrid(rows, cols, v) == Matrix(rows, cols, LAMBDA r, c : <<v, 1>>)

ImpulseGrid(rows, cols, p) ==
    Matrix(rows, cols, LAMBDA r, c : IF <<r, c>> = p THEN <<1, 1>> ELSE <<0, 1>>)

RampGrid(rows, cols) == Matrix(rows, cols, LAMBDA r, c : <<r * cols + c, 1>>)

Grids(rows, cols) ==
    {ConstGrid(rows, cols, v) : v \in 0..MaxVal}
        \cup {ImpulseGrid(rows, cols, p) : p \in Cells(rows, cols)}
        \cup {RampGrid(rows, cols)}

MaskOf(rows, cols, S) == Matrix(rows, cols, LAMBDA r, c : <<r, c>> \in S)

\* The cells orthogonally adjacent to the centre cell.
CrossCells(rows, cols) ==
    {p \in Cells(rows, cols) :
        Abs(p[1] - rows \div 2) + Abs(p[2] - cols \div 2) = 1}

\* No mask, masks of the grid's shape, and a mask of another shape.
Masks(rows, cols) ==
    {<<>>}
        \cup {<<MaskOf(rows, cols, {p})>> : p \in Cells(rows, cols)}
        \cup {<<MaskOf(rows, cols, {})>>,
              <<MaskOf(rows, cols, Cells(rows, cols))>>,
              <<MaskOf(rows, cols, CrossCells(rows, cols))>>,
              <<MaskOf(rows, cols + 1, {})>>}

ScenarioKernel == Array(<< <<5, 10, 5>>, <<10, 40, 10>>, <<5, 10, 5>> >>)

\* Kernels in weight units: odd and even sided, with and without zero
\* weights, symmetric and not, normalised and not.
Kernels ==
    {Array(<< <<100>> >>),
     Array(<< <<25, 50, 25>> >>),
     Array(<< <<25>>, <<50>>, <<25>> >>),
     ScenarioKernel,
     Array(<< <<0, 10, 0>>, <<10, 60, 10>>, <<0, 10, 0>> >>),
     Array(<< <<2, 4, 6>>, <<8, 10, 12>>, <<14, 16, 28>> >>),
     Array(<< <<100, 100, 100>>, <<100, 100, 100>>, <<100, 100, 100>> >>),
     Array(<< <<50, 50>> >>),
     Array(<< <<25, 25>>, <<25, 25>> >>)}

InputSet ==
    UNION {[input : Grids(rows, cols), weights : Kernels,
            mask : Masks(rows, cols), slow : BOOLEAN] :
           rows \in 1..MaxRows, cols \in 1..MaxCols}

\* The 5x5 scenario: zeros with 1.0 at the centre, the 3x3 kernel, no mask
\* or the four cells orthogonally adjacent to the centre masked.
ScenarioGrid == ImpulseGrid(5, 5, <<2, 2>>)
ScenarioMask == MaskOf(5, 5, CrossCells(5, 5))

ScenarioInputs ==
    [input : {ScenarioGrid}, weights : {ScenarioKernel},
     mask : {<<>>, <<ScenarioMask>>}, slow : BOOLEAN]

\* Inputs of the runs whose cells are processed in any order.
ParInputsOf(rows, cols) ==
    [input : {RampGrid(rows, cols)},
     weights : Kernels \ {Array(<< <<100, 100, 100>>, <<100, 100, 100>>, <<100, 100, 100>> >>),
                          Array(<< <<50, 50>> >>)},
     mask : {<<>>, <<MaskOf(rows, cols, {<<0, 0>>})>>,
             <<MaskOf(rows, cols, CrossCells(rows, cols))>>},
     slow : BOOLEAN]

ParInputSet ==
    UNION {ParInputsOf(s[1], s[2]) :
           s \in {t \in (1..MaxRows) \X (1..MaxCols) : t[1] * t[2] <= MaxParCells}}

\* ------------------------------------------------------------------ state
VARIABLES input, weights, mask, slow,      \* the arguments of convolve
          tiled_input, tiled_mask, output, \* its arrays (<<>> before built)
          pending,      \* output cells the loops have not reached yet
          cell,         \* <<io, jo>> of the last pass of the loop body
          tmp_weights,  \* working kernel built in that pass (<<>> if none)
          written,      \* cells assigned by output[io, jo] = average
          pc,           \* "call", "loop", "returned", "raised"
          err,          \* the assertion that failed
          result        \* <<array>> once returned, <<>> otherwise

vars == <<input, weights, mask, slow, tiled_input, tiled_mask, output,
          pending, cell, tmp_weights, written, pc, err, result>>

args == <<input, weights, mask, slow>>

InitWith(x) ==
    /\ input = x.input
    /\ weights = x.weights
    /\ mask = x.mask
    /\ slow = x.slow
    /\ tiled_input = <<>>
    /\ tiled_mask = <<>>
    /\ output = <<>>
    /\ pending = {}
    /\ cell = <<>>
    /\ tmp_weights = <<>>
    /\ written = {}
    /\ pc = "call"
    /\ err = ""
    /\ result = <<>>

Init == \E x \in InputSet \cup ScenarioInputs : InitWith(x)

InitAnyOrder == \E x \in ParInputSet : InitWith(x)

\* An AssertionError leaves convolve: nothing is returned.
Raise(e) ==
    /\ pc' = "raised"
    /\ err' = e
    /\ result' = <<>>

\* The failed assertion of the prologue of convolve, "" if none.
CallError(inp, w, msk, slw) ==
    IF ~SizePrecondition(inp, w) THEN "weights.shape"
    ELSE IF msk # <<>> /\ slw THEN "slow"
    ELSE IF msk # <<>> /\ Shape(inp) # Shape(msk[1]) THEN "mask.shape"
    ELSE IF msk # <<>> /\ ~TileAsserts(msk[1], tile_and_reflect(msk[1])) THEN "tile_mask"
    ELSE IF ~TileAsserts(inp, tile_and_reflect(inp)) THEN "tile_input"
    ELSE ""

\* convolve up to its loops: the assertions, tiled_mask, output, tiled_input.
Call ==
    /\ pc = "call"
    /\ IF CallError(input, weights, mask, slow) # ""
       THEN /\ Raise(CallError(input, weights, mask, slow))
            /\ output' = IF CallError(input, weights, mask, slow) = "tile_input"
                          THEN <<input>> ELSE <<>>
            /\ UNCHANGED <<tiled_input, tiled_mask, pending>>
       ELSE /\ tiled_mask' = IF mask # <<>> THEN <<tile_and_reflect(mask[1])>> ELSE <<>>
            /\ output' = <<input>>
            /\ tiled_input' = <<tile_and_reflect(input)>>
            /\ pending' = Cells(Shape(input)[1], Shape(input)[2])
            /\ pc' = "loop"
            /\ UNCHANGED <<err, result>>
    /\ UNCHANGED <<args, cell, tmp_weights, written>>

\* One pass of the loop body, for output cell c.
Step(c) ==
    LET b == LoopBody(input, weights, mask, slow, tiled_input[1], tiled_mask,
                      output[1], c[1], c[2])
    IN  /\ cell' = c
        /\ pending' = pending \ {c}
        /\ tmp_weights' = b.tmp
        /\ IF b.kind = "raise"
           THEN /\ Raise(b.err)
                /\ UNCHANGED <<output, written>>
           ELSE /\ IF b.kind = "write"
                   THEN /\ output' = <<[output[1] EXCEPT ![c[1]][c[2]] = b.average]>>
                        /\ written' = written \cup {c}
                   ELSE UNCHANGED <<output, written>>
                /\ UNCHANGED <<pc, err, result>>
        /\ UNCHANGED <<args, tiled_input, tiled_mask>>

\* The cell the nested for loops reach next.
RowMajorFirst(S) ==
    CHOOSE c \in S : \A d \in S : c[1] < d[1] \/ (c[1] = d[1] /\ c[2] <= d[2])

\* The next pass of "for i, io ...: for j, jo ...:".
Cell ==
    /\ pc = "loop"
    /\ pending # {}
    /\ Step(RowMajorFirst(pending))

\* return output
Return ==
    /\ pc = "loop"
    /\ pending = {}
    /\ pc' = "returned"
    /\ result' = output
    /\ UNCHANGED <<args, tiled_input, tiled_mask, output, pending, cell,
                   tmp_weights, written, err>>

Next == Call \/ Cell \/ Return

Spec == Init /\ [][Next]_vars

\* The loop body run for the pending cells in any order, joined by Return.
CellAny ==
    /\ pc = "loop"
    /\ \E c \in pending : Step(c)

NextAnyOrder == Call \/ CellAny \/ Return

SpecAnyOrder == InitAnyOrder /\ [][NextAnyOrder]_vars

\* ------------------------------------------- convolve as a pure function
\* The loops of convolve run to their end over the cells S, in row-major
\* order, from output array out: <<"returned", output>> or <<"raised", e>>.
RECURSIVE Loops(_, _, _, _, _, _, _, _)
Loops(inp, w, msk, slw, tiled_in, tiled_msk, out, S) ==
    IF S = {} THEN <<"returned", out>>
    ELSE LET c == RowMajorFirst(S)
             b == LoopBody(inp, w, msk, slw, tiled_in, tiled_msk, out, c[1], c[2])
         IN  IF b.kind = "raise" THEN <<"raised", b.err>>
             ELSE Loops(inp, w, msk, slw, tiled_in, tiled_msk,
                        IF b.kind = "write"
                        THEN [out EXCEPT ![c[1]][c[2]] = b.average] ELSE out,
                        S \ {c})

\* convolve(input, weights, mask, slow)
Convolve(inp, w, msk, slw) ==
    IF CallError(inp, w, msk, slw) # "" THEN <<"raised", CallError(inp, w, msk, slw)>>
    ELSE Loops(inp, w, msk, slw, tile_and_reflect(inp),
               IF msk # <<>> THEN <<tile_and_reflect(msk[1])>> ELSE <<>>,
               inp, Cells(Shape(inp)[1], Shape(inp)[2]))

\* ----------------------------------------------------------------- claims
rows == Shape(input)[1]
cols == Shape(input)[2]

\* The kernel sums to 1.
Normalised == NpSum(weights, Shape(weights)[1], Shape(weights)[2]) = WeightUnit

\* Each kernel dimension is less than the grid dimension + 1.
KernelFits == Shape(weights)[1] < rows + 1 /\ Shape(weights)[2] < cols + 1

OddSided == Shape(weights)[1] % 2 = 1 /\ Shape(weights)[2] % 2 = 1

Finished == pc \in {"returned", "raised"}

\* C1: in windowed mode with a mask, a kernel that sums to 1 and fits the
\* grid, every working kernel built for an unmasked cell sums to 1, and
\* the assertion on the kernel sum never fails.
MaskWeightConservation ==
    (mask # <<>> /\ ~slow /\ Normalised /\ KernelFits /\ tmp_weights # <<>>)
        => /\ WeightsSum(tmp_weights[1]) = <<WeightUnit, 1>>
           /\ err # "kernel_sum"

\* C2, as claimed: for an unmasked grid and any kernel that fits the grid,
\* the call returns, and the other mode returns the same output.
ModeEquivalenceAnyKernel ==
    (mask = <<>> /\ KernelFits /\ Finished)
        => /\ pc = "returned"
           /\ Convolve(input, weights, <<>>, ~slow) = <<"returned", result[1]>>

\* C2, amended: for an unmasked grid and any odd-sided kernel that fits
\* the grid, the call returns, and the other mode returns the same output.
ModeEquivalence ==
    (mask = <<>> /\ KernelFits /\ OddSided /\ Finished)
        => /\ pc = "returned"
           /\ Convolve(input, weights, <<>>, ~slow) = <<"returned", result[1]>>

ModeEquivalenceWitness ==
    /\ pc = "returned"
    /\ mask = <<>>
    /\ slow
    /\ input = RampGrid(3, 3)
    /\ weights = Array(<< <<2, 4, 6>>, <<8, 10, 12>>, <<14, 16, 28>> >>)
    /\ result[1] # input

\* T has three times the shape of A, its central tile is A, and the four
\* rows and columns bordering the central tile equal the edges of A.
Reflected(A, T) ==
    LET r == Shape(A)[1]
        c == Shape(A)[2]
    IN  /\ Shape(T) = <<3 * r, 3 * c>>
        /\ \A x \in 0..(r - 1), y \in 0..(c - 1) : T[r + x][c + y] = A[x][y]
        /\ \A y \in 0..(c - 1) : A[0][y] = T[r - 1][c + y]
        /\ \A y \in 0..(c - 1) : A[r - 1][y] = T[2 * r][c + y]
        /\ \A x \in 0..(r - 1) : A[x][0] = T[r + x][c - 1]
        /\ \A x \in 0..(r - 1) : A[x][c - 1] = T[r + x][2 * c]

\* C3: tile_and_reflect of the grid (and of the mask) is three times its
\* shape, keeps it as the central tile, meets the central tile's four
\* edges with equal rows and columns, and none of its assertions fails.
ReflectionCorrectness ==
    /\ err \notin {"tile_input", "tile_mask"}
    /\ Reflected(input, tile_and_reflect(input))
    /\ tiled_input # <<>> => Reflected(input, tiled_input[1])
    /\ tiled_mask # <<>> => Reflected(mask[1], tiled_mask[1])

ReflectionWitness ==
    /\ tiled_input # <<>>
    /\ tiled_mask # <<>>
    /\ input = RampGrid(3, 2)
    /\ mask = <<MaskOf(3, 2, {<<0, 1>>})>>

IsConstant == \A c \in Cells(rows, cols) : input[c[1]][c[2]] = input[0][0]

\* C4: for a constant grid, a kernel that sums to 1 and fits the grid
\* (odd-sided, as every Kernel is), and a mask of the grid's shape or no
\* mask (no mask in slow mode), the call returns a grid of that constant.
ConstantFieldInvariant ==
    (/\ IsConstant /\ Normalised /\ KernelFits /\ OddSided
     /\ (mask # <<>> => ~slow /\ Shape(mask[1]) = Shape(input))
     /\ Finished)
        => /\ pc = "returned"
           /\ \A c \in Cells(rows, cols) : result[1][c[1]][c[2]] = input[0][0]

\* C5: in the output of a masked call, every masked cell holds the
\* grid's value.
MaskPassThrough ==
    (pc = "returned" /\ mask # <<>>)
        => \A c \in Cells(rows, cols) :
               mask[1][c[1]][c[2]] => result[1][c[1]][c[2]] = input[c[1]][c[2]]

MaskPassThroughWitness ==
    /\ pc = "returned"
    /\ input = ImpulseGrid(3, 3, <<1, 1>>)
    /\ mask = <<MaskOf(3, 3, {<<1, 1>>})>>
    /\ weights = ScenarioKernel
    /\ result[1][1][1] = <<1, 1>>
    /\ written = Cells(3, 3) \ {<<1, 1>>}

\* C6: a call returns an output of the grid's shape, every cell of it
\* either written by the loop or a masked cell's copy, or it raises and
\* returns nothing; an oversized kernel, a mask in slow mode and a mask
\* of another shape raise before any output cell is computed.
NeverPartial ==
    /\ pc = "returned" =>
          /\ result # <<>>
          /\ Shape(result[1]) = Shape(input)
          /\ \A c \in Cells(rows, cols) :
                c \in written \/ (mask # <<>> /\ mask[1][c[1]][c[2]])
    /\ pc # "returned" => result = <<>>
    /\ (/\ pc # "call"
        /\ \/ ~KernelFits
           \/ (mask # <<>> /\ slow)
           \/ (mask # <<>> /\ Shape(mask[1]) # Shape(input)))
          => pc = "raised" /\ output = <<>> /\ written = {} /\ cell = <<>>

NeverPartialWitness ==
    /\ pc = "raised"
    /\ written # {}
    /\ output # <<input>>
    /\ result = <<>>

IsMaskedScenario ==
    /\ input = ScenarioGrid
    /\ weights = ScenarioKernel
    /\ mask = <<ScenarioMask>>
    /\ ~slow

\* C7: the masked 5x5 scenario never raises, the working kernel built for
\* the centre cell sums to 1, and the centre of the output exceeds 0.4.
MaskedScenario ==
    IsMaskedScenario
        => /\ pc # "raised"
           /\ cell = <<2, 2>> =>
                 tmp_weights # <<>> /\ WeightsSum(tmp_weights[1]) = <<WeightUnit, 1>>
           /\ pc = "returned" => RatGT(result[1][2][2], <<2, 5>>)

MaskedScenarioWitness ==
    /\ IsMaskedScenario
    /\ pc = "returned"
    /\ result[1][2][2] = <<12, 25>>

\* 0.4 at the centre, 0.1 next to it, 0.05 diagonally, 0 on the border.
ScenarioOutput ==
    Matrix(5, 5,
           LAMBDA r, c :
               IF r = 2 /\ c = 2 THEN <<2, 5>>
               ELSE IF Abs(r - 2) + Abs(c - 2) = 1 THEN <<1, 10>>
               ELSE IF Abs(r - 2) = 1 /\ Abs(c - 2) = 1 THEN <<1, 20>>
               ELSE <<0, 1>>)

\* C8: the unmasked 5x5 scenario returns 0.4 at the centre, 0.1 at its
\* orthogonal neighbours, 0.05 at its diagonal neighbours, 0 elsewhere.
UnmaskedScenario ==
    (input = ScenarioGrid /\ weights = ScenarioKernel /\ mask = <<>> /\ Finished)
        => pc = "returned" /\ result[1] = ScenarioOutput

UnmaskedScenarioWitness ==
    /\ input = ScenarioGrid
    /\ weights = ScenarioKernel
    /\ mask = <<>>
    /\ ~slow
    /\ pc = "returned"
    /\ result[1][0][0] = <<0, 1>>
    /\ result[1][1][1] = <<1, 20>>

\* C9: with the cells processed in any order, the call ends as the
\* row-major loops end: the same output, or an assertion failure.
OrderIndependence ==
    /\ pc = "returned" =>
          Convolve(input, weights, mask, slow) = <<"returned", result[1]>>
    /\ pc = "raised" => Convolve(input, weights, mask, slow)[1] = "raised"

OrderIndependenceWitness ==
    /\ pc = "returned"
    /\ cell = <<0, 0>>
    /\ input = RampGrid(3, 3)
    /\ Shape(weights) = <<3, 3>>
    /\ Cardinality(written) > 1
    /\ result[1] # input

\* C10: for an odd-sided kernel accepted by the size precondition, the
\* window of every output cell lies inside the tiled grid and has the
\* kernel's shape.
WindowInsideTiling ==
    (pc = "loop" /\ OddSided)
        => \A c \in Cells(rows, cols) :
              LET i == TiledIndex(rows, c[1])
                  j == TiledIndex(cols, c[2])
              IN  /\ i - hw_row(weights) >= 0
                  /\ i + hw_row(weights) < 3 * rows
                  /\ j - hw_col(weights) >= 0
                  /\ j + hw_col(weights) < 3 * cols
                  /\ WindowShape(tiled_input[1], weights, i, j) = Shape(weights)

WindowInsideTilingWitness ==
    /\ pc = "loop"
    /\ Shape(input) = <<3, 3>>
    /\ Shape(weights) = <<3, 3>>
    /\ cell = <<0, 0>>
    /\ written = {<<0, 0>>}

====
